---------------------------- MODULE Spec2Model ----------------------------
(***************************************************************************)
(* State-machine model of sorterbot_labeltool.                             *)
(*                                                                         *)
(*   src/src/verify.py  Verify.verify_images : the accept / skip / undo    *)
(*                      review loop; Verify.export_to_dataset : the split  *)
(*                      into train and val                                 *)
(*   src/src/storage.py Storage.download_videos and its tasks              *)
(*   src/src/main.py    Main.__init__                                      *)
(*   src/src/player.py  Player               : the labelling session, its  *)
(*                      callbacks, the start loop and export               *)
(*                                                                         *)
(* Python sequences are 0-based and TLA+ sequences 1-based: element k of a *)
(* Python list is element k + 1 of the sequence that models it.            *)
(***************************************************************************)
EXTENDS Integers, Sequences, FiniteSets, TLC

(***************************************************************************)
(* Bounds of the model.                                                    *)
(***************************************************************************)
\* largest number of records load_json puts in all_data
MaxCand == 5
\* key presses of a review session that the history variable keys records
MaxKeys == 5

(***************************************************************************)
(* Program constants.                                                      *)
(***************************************************************************)
\* key code of Num+ (verify.py:86)
KeyPlus == 43
\* key code of Num- (verify.py:92)
KeyMinus == 45
\* key code of Num Enter, one of the "other" keys (verify.py:104)
KeyEnter == 13

VARIABLES
    \* ---- Verify (src/src/verify.py) ----
    all_data,        \* self.all_data: the loaded records, named by position
    verified_data,   \* self.verified_data
    i,               \* the cursor of verify_images
    actions,         \* the dict actions of verify_images: index -> last action
    key_code,        \* the key display_image returned last (0: none yet)
    vpc,             \* where verify_images is: "loop", "done", "crashed"
    keys,            \* history: the key codes display_image has returned
    tick,            \* history: parity of the number of keys read, which
                     \* makes every pass of the loop a step that is seen
    data,            \* export_to_dataset: the dict data, [train, val]
    file_name,       \* img["file_name"] of each record of all_data:
                     \* <<folder, record>>, folder "exports" as loaded
    dataset_files,   \* disk: the images in the dataset folder, each
                     \* <<set_type, record>>
    annotations_json,\* disk: annotations.json of each split, <<>> if
                     \* absent, else <<content>>
    uploaded,        \* S3: what upload_dataset sent for each split, <<>> if
                     \* it was not called, else <<[images, annotations]>>
    dpc,             \* where export_to_dataset is: "idle" before it,
                     \* "split" in the loop of line 189, "val" between the
                     \* two passes of the loop of line 203, "returned",
                     \* "raised"
    \* ---- Player (src/src/player.py) ----
    video,           \* the file behind self.video: [w, h, total, bad], bad
                     \* being the frame indices whose read() fails
    radius,          \* self.radius
    max_angle,       \* self.max_angle
    export_interval, \* self.export_interval
    export_offset,   \* self.export_offset
    rectangles,      \* self.rectangles: <<<<l, t>>, <<r, b>>, pos, cat>>
    status,          \* self.status
    tracker_position,\* self.tracker_position
    prev_position,   \* self.prev_position: <<>> is None, <<p>> is p
    rerender,        \* self.rerender
    down,            \* self.downX, self.downY: <<>> unset, <<x, y>>
    frame_dims,      \* self.frame_dims: <<>> unset, <<width, height>>
    trackbar_P,      \* position of the trackbar "P"
    ppc,             \* where Player is: "top" of the loop of start, "wait"
                     \* in cv2.waitKey, "export" in the loop of export,
                     \* "exited" after the break
    shown,           \* the rectangles on the frame cv2.imshow displayed
                     \* last, <<>> when nothing was displayed yet
    caught,          \* the exception the handler of line 330 printed in
                     \* the pass of start that ended last, "" if none
    last_key,        \* what cv2.waitKey(10) returned in this pass of start,
                     \* Unread before it returned
    frame_index,     \* export: the loop variable
    dataset_dicts,   \* export: the records built so far
    exported_frames_count,  \* export: images written by this run
    image_files,     \* disk: frame indices with a .jpg in the exports folder
    dataset_json,    \* disk: <<>> or <<content of {video_name}.json>>
    config_json,     \* disk: the tokens of the sidecar file, <<>> if absent
    sampled,         \* history: frame indices of this run that passed the
                     \* cadence test of line 378, in the order visited
    written,         \* history: frame indices whose image this run wrote
    exported,        \* history: <<>> or <<what the session held when the
                     \* last export that returned wrote the sidecar>>
    \* ---- Storage (src/src/storage.py) and Main (src/src/main.py) ----
    objects,         \* the keys of the bucket listed for the recording set
    videos_dir,      \* disk: the folder videos_path exists
    mp4,             \* disk: per object, the downloaded video is there
    avi,             \* disk: per object, the converted video: "absent",
                     \* "partial" while FFmpeg writes it or after it failed,
                     \* "complete", "garbled" after two FFmpeg processes
                     \* wrote it at once
    rpc,             \* per process, where Main is: "idle" before
                     \* download_videos, "waiting" at the end of the with
                     \* block, "returned", "raised", "main" after makedirs
    tpc,             \* per process and object, where the task
                     \* download_and_convert_video is: "unsubmitted",
                     \* "line57", "download", "line59", "ffmpeg", "convert",
                     \* "done", "raised"
    downloads,       \* history: per object, the download_file calls that
                     \* returned
    conversions,     \* history: per object, the FFmpeg runs that returned
    clash,           \* history: per object, two tasks were writing the
                     \* converted video at the same time
    began_after,     \* history: the tasks submitted when a task of another
                     \* process for the same object was done
    \* ---- a function of Player called on its own ----
    call,            \* the arguments of the call, <<>> when there is none
    ret              \* what the calls made so far returned, in order

datasetVars == <<data, file_name, dataset_files, annotations_json, uploaded,
                 dpc>>

verifyVars == <<all_data, verified_data, i, actions, key_code, vpc, keys, tick,
                datasetVars>>

calibVars == <<radius, max_angle, export_interval, export_offset>>

exportVars == <<frame_index, dataset_dicts, exported_frames_count, sampled,
                written>>

diskVars == <<image_files, dataset_json, config_json, exported>>

screenVars == <<shown, caught>>

playerVars == <<video, calibVars, rectangles, status, tracker_position,
                prev_position, rerender, down, frame_dims, trackbar_P, ppc,
                screenVars, last_key, exportVars, diskVars>>

storageVars == <<objects, videos_dir, mp4, avi, rpc, tpc, downloads,
                 conversions, clash, began_after>>

callVars == <<call, ret>>

vars == <<verifyVars, playerVars, storageVars, callVars>>

(***************************************************************************)
(* Helpers.                                                                *)
(***************************************************************************)
Range(s) == {s[k] : k \in 1..Len(s)}

\* list.pop(): the list without its last element
Pop(s) == SubSeq(s, 1, Len(s) - 1)

\* the history keys, exact up to MaxKeys entries; after that it is TooMany,
\* which holds a code no key has, and nothing more is recorded
TooMany == <<0>>

Record(h, k) == IF h # TooMany /\ Len(h) < MaxKeys THEN Append(h, k)
                ELSE TooMany

(***************************************************************************)
(* Fixed-point arithmetic for Player.calc_new_rectangle_position.          *)
(*                                                                         *)
(* The source computes in floating point.  Here a real number v is the     *)
(* integer v * Scale, angles are kept as exact fractions of a degree, and  *)
(* sine and cosine are the Taylor polynomial of degree 9 after reduction   *)
(* to the first quadrant, exact at multiples of 90 degrees.  The rounding  *)
(* of the intermediate values differs from that of floating point, so a    *)
(* pixel coordinate, which int() truncates, can differ from the source's   *)
(* by one pixel.  The term 0.000001 of line 178 is below the resolution    *)
(* 1 / Scale.  The term 0.000001 of line 180 is not: it is added to        *)
(* sin(gamma_old), which is as small as 0.0003 for a centre half a pixel   *)
(* from the vertical line through the pivot, and is modelled.              *)
(***************************************************************************)
\* fixed-point scale
Scale == 10000

\* int(): truncation towards zero of num / den, den > 0
Trunc(num, den) == IF num >= 0 THEN num \div den ELSE -((-num) \div den)

\* sin of (m / t) degrees times Scale, for 0 <= m <= 90 * t
SinQuadrant(m, t) ==
    IF m = 0 THEN 0
    ELSE IF m = 90 * t THEN Scale
    ELSE LET x  == (m * 17453) \div (t * 100)     \* radians * Scale
             x2 == (x * x) \div Scale
             t4 == Scale - x2 \div 72
             t3 == Scale - ((x2 * t4) \div Scale) \div 42
             t2 == Scale - ((x2 * t3) \div Scale) \div 20
             t1 == Scale - ((x2 * t2) \div Scale) \div 6
         IN  (x * t1) \div Scale

\* math.sin of (n / t) degrees, times Scale
SinDeg(n, t) ==
    LET m == n % (360 * t)
    IN  IF m <= 90 * t THEN SinQuadrant(m, t)
        ELSE IF m <= 180 * t THEN SinQuadrant(180 * t - m, t)
        ELSE IF m <= 270 * t THEN -SinQuadrant(m - 180 * t, t)
        ELSE -SinQuadrant(360 * t - m, t)

\* math.cos of (n / t) degrees, times Scale
CosDeg(n, t) == SinDeg(n + 90 * t, t)

(***************************************************************************)
(* Verify.verify_images                                                    *)
(***************************************************************************)
KeyCodes == {KeyPlus, KeyMinus, KeyEnter}

\* load_json leaves n records in all_data; __init__ leaves verified_data
\* empty; verify_images starts with i = 0 and actions = {}
VerifyInit ==
    /\ all_data \in {[k \in 1..n |-> k - 1] : n \in 0..MaxCand}
    /\ verified_data = <<>>
    /\ i = 0
    /\ actions = <<>>
    /\ key_code = 0
    /\ vpc = "loop"
    /\ keys = <<>>
    /\ tick = 0
    /\ data = [train |-> <<>>, val |-> <<>>]
    /\ file_name = [r \in Range(all_data) |-> <<"exports", r>>]
    /\ dataset_files = {}
    /\ annotations_json = [train |-> <<>>, val |-> <<>>]
    /\ uploaded = [train |-> <<>>, val |-> <<>>]
    /\ dpc = "idle"

\* mutant of AtEnd: the loop breaks one record early
AtEndEarly == i >= Len(all_data) - 1

\* if i == len(self.all_data): break
AtEnd == i = Len(all_data)

\* key_code == 43: append, log "added", move on
Added(pressed) ==
    /\ pressed = KeyPlus
    /\ verified_data' = Append(verified_data, all_data[i + 1])
    /\ actions' = [k \in DOMAIN actions \cup {i} |->
                       IF k = i THEN "added" ELSE actions[k]]
    /\ i' = i + 1
    /\ vpc' = vpc

\* mutant of WasAdded: the log is not consulted, every undo pops
WasAddedAlways == TRUE

\* whether the previous image was added: actions[i - 1] == "added"
WasAdded == actions[i - 1] = "added"

\* mutant of Removed: the undo moves back without popping
RemovedNoPop(pressed) ==
    /\ pressed = KeyMinus
    /\ IF (i - 1) \notin DOMAIN actions
         THEN UNCHANGED i
         ELSE i' = i - 1
    /\ UNCHANGED <<verified_data, vpc, actions>>

\* mutant of Removed: the KeyError handler does not "continue", so the
\* cursor is decremented at the start of the session too
RemovedNoContinue(pressed) ==
    /\ pressed = KeyMinus
    /\ IF (i - 1) \in DOMAIN actions /\ actions[i - 1] = "added"
         THEN verified_data' = Pop(verified_data)
         ELSE verified_data' = verified_data
    /\ i' = i - 1
    /\ UNCHANGED <<vpc, actions>>

\* key_code == 45: actions[i - 1] raises KeyError when nothing is logged
\* there, which is caught and re-prompts (continue); pop() on an empty list
\* raises IndexError, which nothing catches
Removed(pressed) ==
    /\ pressed = KeyMinus
    /\ IF (i - 1) \notin DOMAIN actions
         THEN UNCHANGED <<verified_data, i, vpc>>
         ELSE IF WasAdded
           THEN IF verified_data = <<>>
                  THEN vpc' = "crashed" /\ UNCHANGED <<verified_data, i>>
                  ELSE /\ verified_data' = Pop(verified_data)
                       /\ i' = i - 1
                       /\ vpc' = vpc
           ELSE /\ i' = i - 1
                /\ UNCHANGED <<verified_data, vpc>>
    /\ actions' = actions

\* mutant of Skipped: the skip is not logged
SkippedNoLog(pressed) ==
    /\ pressed \notin {KeyPlus, KeyMinus}
    /\ i' = i + 1
    /\ UNCHANGED <<verified_data, vpc, actions>>

\* any other key: log "skipped", move on
Skipped(pressed) ==
    /\ pressed \notin {KeyPlus, KeyMinus}
    /\ actions' = [k \in DOMAIN actions \cup {i} |->
                       IF k = i THEN "skipped" ELSE actions[k]]
    /\ i' = i + 1
    /\ UNCHANGED <<verified_data, vpc>>

\* one pass of the while loop that displays all_data[i] and reads a key
VerifyKey ==
    /\ vpc = "loop"
    /\ ~AtEnd
    /\ \E pressed \in KeyCodes :
          /\ key_code' = pressed
          /\ \/ Added(pressed)
             \/ Removed(pressed)
             \/ Skipped(pressed)
          /\ keys' = Record(keys, pressed)
          /\ tick' = 1 - tick
    /\ UNCHANGED <<all_data, datasetVars, playerVars, storageVars, callVars>>

\* the pass of the while loop that breaks
VerifyBreak ==
    /\ vpc = "loop"
    /\ AtEnd
    /\ vpc' = "done"
    /\ UNCHANGED <<all_data, verified_data, i, actions, key_code, keys, tick,
                   datasetVars, playerVars, storageVars, callVars>>

(***************************************************************************)
(* Verify.export_to_dataset with manual_verification, which run calls     *)
(* when verify_images has returned.                                        *)
(***************************************************************************)
SetTypes == {"train", "val"}

\* mutant of DestPath: every image is copied to the train folder
DestPathTrain(set_type, img) == <<"train", img>>

\* line 194: dest_path, the dataset folder of the split and the base name
\* of the image
DestPath(set_type, img) == <<set_type, img>>

\* lines 169-188: the folders are made, verified_data is self.verified_data
\* and data starts empty
ExportToDataset ==
    /\ vpc = "done"
    /\ dpc = "idle"
    /\ data' = [train |-> <<>>, val |-> <<>>]
    /\ dpc' = "split"
    /\ UNCHANGED <<all_data, verified_data, i, actions, key_code, vpc, keys,
                   tick, file_name, dataset_files, annotations_json, uploaded,
                   playerVars, storageVars, callVars>>

\* lines 189-200: one pass of the loop over verified_data, random.random()
\* deciding set_type.  copyfile raises when img["file_name"] is no longer
\* the path of the exported image
SplitOne(set_type) ==
    /\ dpc = "split"
    /\ Len(data.train) + Len(data.val) < Len(verified_data)
    /\ LET img == verified_data[Len(data.train) + Len(data.val) + 1]
       IN  IF file_name[img][1] # "exports"
             THEN /\ dpc' = "raised"
                  /\ UNCHANGED <<data, file_name, dataset_files>>
             ELSE /\ dataset_files' =
                        dataset_files \cup {DestPath(set_type, img)}
                  /\ file_name' = [file_name EXCEPT ![img] = <<set_type, img>>]
                  /\ data' = [data EXCEPT ![set_type] = Append(@, img)]
                  /\ dpc' = dpc
    /\ UNCHANGED <<all_data, verified_data, i, actions, key_code, vpc, keys,
                   tick, annotations_json, uploaded, playerVars,
                   storageVars, callVars>>

\* what os.walk finds in the folder of a split: the images and, if it is
\* there, annotations.json
FolderOf(data_type) ==
    [images |-> {f[2] : f \in {g \in dataset_files : g[1] = data_type}},
     annotations |-> annotations_json[data_type]]

\* lines 203-211: one pass of the loop over data, upload_dataset and then
\* json.dump; after the pass for val the kept ratio is printed, which
\* divides by len(self.all_data)
UploadAndWrite(data_type) ==
    /\ \/ /\ dpc = "split"
          /\ Len(data.train) + Len(data.val) = Len(verified_data)
          /\ data_type = "train"
          /\ dpc' = "val"
       \/ /\ dpc = "val"
          /\ data_type = "val"
          /\ dpc' = IF Len(all_data) = 0 THEN "raised" ELSE "returned"
    /\ uploaded' = [uploaded EXCEPT ![data_type] = <<FolderOf(data_type)>>]
    /\ annotations_json' =
          [annotations_json EXCEPT ![data_type] = <<data[data_type]>>]
    /\ UNCHANGED <<all_data, verified_data, i, actions, key_code, vpc, keys,
                   tick, data, file_name, dataset_files, playerVars,
                   storageVars, callVars>>

(***************************************************************************)
(* Player: the video, the calibration and what the user can do.           *)
(***************************************************************************)
\* bound: frames of the video of an interactive session
MaxFrames == 3
\* bound: rectangles a session draws before the model stops drawing more
MaxRects == 1
\* bound: how far below frame 0 repeated step-back keys take
\* tracker_position before the model stops pressing the key
MaxBelow == 1

\* window_width, the default of Player.__init__ that Main leaves in place
WindowWidth == 1000
\* the defaults of radius, max_angle, export_interval, export_offset
DefaultRadius == 1680
DefaultMaxAngle == 143
DefaultInterval == 18
DefaultOffset == 3
\* the upper ends of the four calibration trackbars
RadiusMax == 5000
AngleMax == 360
IntervalMax == 100
OffsetMax == 100

\* ord("s"), ord("w"), ord("a"), ord("d"), ord("e"), ord("z"), Esc, Shift
KeyS == 115
KeyW == 119
KeyA == 97
KeyD == 100
KeyE == 101
KeyZ == 122
KeyEsc == 27
KeyShift == 16
\* cv2.waitKey when no key was pressed within the delay
KeyNone == -1
\* cv2.waitKey has not returned in this pass: no key code
Unread == 0
\* ord("x"), a key the table of start does not hold
KeyX == 120

\* the keys the model presses
KeyInputs == {KeyS, KeyW, KeyA, KeyD, KeyE, KeyZ, KeyEsc, KeyShift, KeyNone,
              KeyX}

\* cv2.CAP_PROP_FRAME_WIDTH and _HEIGHT of the videos of the model
VideoDims == {<<1280, 720>>}

\* the videos of an interactive session: MaxFrames frames that all read
Videos ==
    {[w |-> d[1], h |-> d[2], total |-> MaxFrames, bad |-> {}] :
        d \in VideoDims}

\* the values the user drags the calibration trackbars to
RadiusVals == {1680}
AngleVals == {8}
IntervalVals == {0, 2}
OffsetVals == {3}

\* the window points where the user presses and releases the mouse button
PointA == <<100, 100>>
PointB == <<300, 250>>

\* the mouse events of the model, <<event, x, y, shift held>>: a press at
\* PointB, a release at PointA with shift and one at PointB without, and a
\* move.  They draw the box PointA-PointB from its bottom right corner to
\* its top left one, and at PointB a box of no area
MouseEvents ==
    {<<"down", PointB[1], PointB[2], FALSE>>,
     <<"up", PointA[1], PointA[2], TRUE>>,
     <<"up", PointB[1], PointB[2], FALSE>>,
     <<"move", PointA[1], PointA[2], FALSE>>}

\* int(self.total_frames)
TotalFrames == video.total

(***************************************************************************)
(* Player.__init__                                                         *)
(***************************************************************************)
\* one token of a JSON text: a bracket, a brace, a key or a number
Tok(t, v) == [t |-> t, v |-> v]
Punct(t) == Tok(t, 0)
Num(v) == Tok("num", v)

\* mutant of DumpRect: the top-left corner is written for both corners
DumpRectOneCorner(rect) ==
    <<Punct("["), Punct("["), Num(rect[1][1]), Num(rect[1][2]), Punct("]"),
      Punct("["), Num(rect[1][1]), Num(rect[1][2]), Punct("]"),
      Num(rect[3]), Num(rect[4]), Punct("]")>>

\* json.dump of one rectangle: tuples and lists both become arrays
DumpRect(rect) ==
    <<Punct("["), Punct("["), Num(rect[1][1]), Num(rect[1][2]), Punct("]"),
      Punct("["), Num(rect[2][1]), Num(rect[2][2]), Punct("]"),
      Num(rect[3]), Num(rect[4]), Punct("]")>>

RECURSIVE DumpRects(_)
DumpRects(rects) ==
    IF rects = <<>> THEN <<>>
    ELSE DumpRect(Head(rects)) \o DumpRects(Tail(rects))

\* json.dump(config, outfile) of export, lines 429-436
DumpConfig(rects, rad, ang, interval, offset) ==
    <<Punct("{"), Tok("key", "rectangles"), Punct("[")>>
    \o DumpRects(rects)
    \o <<Punct("]"),
         Tok("key", "radius"), Num(rad),
         Tok("key", "max_angle"), Num(ang),
         Tok("key", "export_interval"), Num(interval),
         Tok("key", "export_offset"), Num(offset),
         Punct("}")>>

\* tokens of a rectangle, and of a config holding no rectangle
RectTokens == 12
ConfigTokens == 13

\* json.load of the rectangle whose opening bracket is token at: arrays
\* become lists
LoadRect(text, at) ==
    <<<<text[at + 2].v, text[at + 3].v>>,
      <<text[at + 6].v, text[at + 7].v>>,
      text[at + 9].v, text[at + 10].v>>

\* the value json.load gives under key name: the number after the key token
LoadNumber(text, name) ==
    LET at == CHOOSE k \in 1..Len(text) : text[k] = Tok("key", name)
    IN  text[at + 1].v

\* config["rectangles"] of json.load(json_file)
LoadRectangles(text) ==
    [k \in 1..((Len(text) - ConfigTokens) \div RectTokens) |->
        LoadRect(text, 4 + (k - 1) * RectTokens)]

\* mutant of config_found: the sidecar is not looked for
config_never_found == FALSE

\* lines 44-49: open() finds the sidecar file, or raises FileNotFoundError
config_found == config_json # <<>>

\* Player.__init__, lines 42-61 and the trackbars of lines 74-92; Main
\* passes no calibration, so the defaults stand when there is no sidecar.
\* setTrackbarPos may call the updater back, which sets rerender: either way
Construct ==
    /\ radius' = IF config_found THEN LoadNumber(config_json, "radius")
                 ELSE DefaultRadius
    /\ max_angle' = IF config_found THEN LoadNumber(config_json, "max_angle")
                    ELSE DefaultMaxAngle
    /\ export_interval' =
           IF config_found THEN LoadNumber(config_json, "export_interval")
           ELSE DefaultInterval
    /\ export_offset' =
           IF config_found THEN LoadNumber(config_json, "export_offset")
           ELSE DefaultOffset
    /\ rectangles' = IF config_found THEN LoadRectangles(config_json)
                     ELSE <<>>
    /\ status' = "stay"
    /\ tracker_position' = 0
    /\ prev_position' = <<>>
    /\ rerender' \in BOOLEAN
    /\ trackbar_P' = 0

\* the state after Player(avi_file, export_id) on a video never exported
PlayerInit ==
    /\ video \in Videos
    /\ radius = DefaultRadius
    /\ max_angle = DefaultMaxAngle
    /\ export_interval = DefaultInterval
    /\ export_offset = DefaultOffset
    /\ rectangles = <<>>
    /\ status = "stay"
    /\ tracker_position = 0
    /\ prev_position = <<>>
    /\ rerender \in BOOLEAN
    /\ down = <<>>
    /\ frame_dims = <<>>
    /\ trackbar_P = 0
    /\ ppc = "top"
    /\ shown = <<>>
    /\ caught = ""
    /\ last_key = Unread
    /\ frame_index = 0
    /\ dataset_dicts = <<>>
    /\ exported_frames_count = 0
    /\ image_files = {}
    /\ dataset_json = <<>>
    /\ config_json = <<>>
    /\ sampled = <<>>
    /\ written = {}
    /\ exported = <<>>

\* Main run again on the same recording set after the player was left:
\* Player.__init__ on the same video
Open ==
    /\ ppc = "exited"
    /\ Construct
    /\ down' = <<>>
    /\ frame_dims' = <<>>
    /\ ppc' = "top"
    /\ shown' = <<>>
    /\ caught' = ""
    /\ last_key' = Unread
    /\ UNCHANGED <<video, exportVars, diskVars, verifyVars,
                   storageVars, callVars>>

(***************************************************************************)
(* Player: the updater functions of the trackbars and the mouse handler,   *)
(* which HighGUI calls while start is inside cv2.waitKey.                  *)
(***************************************************************************)
Min(a, b) == IF a <= b THEN a ELSE b
Max(a, b) == IF a >= b THEN a ELSE b

update_tracker_position(new_tracker_position) ==
    /\ ppc = "wait"
    /\ tracker_position' = new_tracker_position
    /\ trackbar_P' = new_tracker_position
    /\ UNCHANGED <<video, calibVars, rectangles, status, prev_position,
                   rerender, down, frame_dims, ppc, screenVars, last_key,
                   exportVars, diskVars, verifyVars, storageVars, callVars>>

update_radius(new_radius) ==
    /\ ppc = "wait"
    /\ radius' = new_radius
    /\ rerender' = TRUE
    /\ UNCHANGED <<video, max_angle, export_interval, export_offset,
                   rectangles, status, tracker_position, prev_position, down,
                   frame_dims, trackbar_P, ppc, screenVars, last_key,
                   exportVars, diskVars, verifyVars, storageVars, callVars>>

update_angle(angle) ==
    /\ ppc = "wait"
    /\ max_angle' = angle
    /\ rerender' = TRUE
    /\ UNCHANGED <<video, radius, export_interval, export_offset,
                   rectangles, status, tracker_position, prev_position, down,
                   frame_dims, trackbar_P, ppc, screenVars, last_key,
                   exportVars, diskVars, verifyVars, storageVars, callVars>>

update_interval(new_interval) ==
    /\ ppc = "wait"
    /\ export_interval' = new_interval
    /\ rerender' = TRUE
    /\ UNCHANGED <<video, radius, max_angle, export_offset,
                   rectangles, status, tracker_position, prev_position, down,
                   frame_dims, trackbar_P, ppc, screenVars, last_key,
                   exportVars, diskVars, verifyVars, storageVars, callVars>>

update_offset(new_offset) ==
    /\ ppc = "wait"
    /\ export_offset' = new_offset
    /\ rerender' = TRUE
    /\ UNCHANGED <<video, radius, max_angle, export_interval,
                   rectangles, status, tracker_position, prev_position, down,
                   frame_dims, trackbar_P, ppc, screenVars, last_key,
                   exportVars, diskVars, verifyVars, storageVars, callVars>>

\* the rectangle line 133 appends for a release at <<x, y>>
DrawnRect(x, y, category) ==
    <<<<Min(down[1], x), Min(down[2], y)>>,
      <<Max(down[1], x), Max(down[2], y)>>,
      tracker_position, category>>

\* onMouseClick; event is "down" (EVENT_LBUTTONDOWN), "up" (EVENT_LBUTTONUP)
\* or "move" (any other).  A release before any press reads self.downX,
\* which does not exist yet: the AttributeError ends the handler early
onMouseClick(event, x, y, shift) ==
    /\ ppc = "wait"
    /\ LET category == IF shift THEN 1 ELSE 0
       IN  CASE event = "down" ->
                  /\ down' = <<x, y>>
                  /\ rerender' = TRUE
                  /\ UNCHANGED rectangles
             [] event = "up" /\ down = <<>> ->
                  UNCHANGED <<down, rerender, rectangles>>
             [] event = "up" /\ down # <<>> ->
                  /\ Len(rectangles) < MaxRects
                  /\ rectangles' = Append(rectangles, DrawnRect(x, y, category))
                  /\ rerender' = TRUE
                  /\ UNCHANGED down
             [] OTHER ->
                  /\ rerender' = TRUE
                  /\ UNCHANGED <<down, rectangles>>
    /\ UNCHANGED <<video, calibVars, status, tracker_position, prev_position,
                   frame_dims, trackbar_P, ppc, screenVars, last_key,
                   exportVars, diskVars, verifyVars, storageVars, callVars>>

(***************************************************************************)
(* Player.calc_new_rectangle_position, is_rect_in_bounds, scale_rect       *)
(***************************************************************************)
\* Lines 162-191 with twice the coordinates, so that the halves of lines 162,
\* 174 and 175 stay integers.  (dx2, dy2) is twice the vector from the
\* centre of the rectangle to the pivot, that is polar_radius times
\* (sin gamma_old, cos gamma_old); lines 183-188 turn it by angle_new -
\* angle_old, written out with the addition formulas of sine and cosine.
\* When the centre is on the vertical line through the pivot, gamma_old is 0
\* and line 180 gives polar_radius = 0 / 0.000001 = 0.  Elsewhere line 180
\* gives the distance to the pivot times
\*     sin(gamma_old) / (sin(gamma_old) + 0.000001) = 1 - 1 / (q + 1),
\* with q = dx2 * (1000000 / hyp) and hyp twice the distance to the pivot,
\* taken to the second order in dx2 / dy2.
calc_new_rectangle_position(old_rect_points, position) ==
    LET box_w == old_rect_points[2][1] - old_rect_points[1][1]
        box_h == old_rect_points[2][2] - old_rect_points[1][2]
        tracker_position_when_drawn == old_rect_points[3]
        \* angle_new - angle_old is turn / total degrees
        turn  == max_angle * (position - tracker_position_when_drawn)
        total == video.total
        dx2 == video.w - (old_rect_points[1][1] + old_rect_points[2][1])
        dy2 == 2 * radius + video.h
                 - (old_rect_points[1][2] + old_rect_points[2][2])
        sinT == SinDeg(turn, total)
        cosT == CosDeg(turn, total)
        \* 2 * Scale * sin(gamma_new) * polar_radius, and the same of cos
        hyp == dy2 + Trunc(dx2 * dx2, 2 * dy2)
        q == dx2 * (1000000 \div hyp)
        turned_x == dx2 * cosT + dy2 * sinT
        turned_y == dy2 * cosT - dx2 * sinT
        excess(v) == IF q + 1 > 0 THEN Trunc(v, q + 1) ELSE -Trunc(v, -(q + 1))
        px == IF dx2 = 0 THEN 0 ELSE turned_x - excess(turned_x)
        py == IF dx2 = 0 THEN 0 ELSE turned_y - excess(turned_y)
        \* 2 * Scale * x2 and 2 * Scale * y2
        x2 == Scale * video.w - px
        y2 == Scale * (2 * radius + video.h) - py
    IN  <<<<Trunc(x2 - Scale * box_w, 2 * Scale),
            Trunc(y2 - Scale * box_h, 2 * Scale)>>,
          <<Trunc(x2 + Scale * box_w, 2 * Scale),
            Trunc(y2 + Scale * box_h, 2 * Scale)>>,
          old_rect_points[3], old_rect_points[4]>>

\* mutant of is_rect_in_bounds: the comparison with the width is turned
\* round
is_rect_in_bounds_width_reversed(rectangle, dims) ==
    /\ rectangle[1][1] > 0
    /\ rectangle[1][2] > 0
    /\ rectangle[2][1] > dims[1]
    /\ rectangle[2][2] < dims[2]

\* mutant of is_rect_in_bounds: a rectangle on an edge of the frame passes
is_rect_in_bounds_or_on_edge(rectangle, dims) ==
    /\ rectangle[1][1] >= 0
    /\ rectangle[1][2] >= 0
    /\ rectangle[2][1] <= dims[1]
    /\ rectangle[2][2] <= dims[2]

\* is_rect_in_bounds, line 347
is_rect_in_bounds(rectangle, dims) ==
    /\ rectangle[1][1] > 0
    /\ rectangle[1][2] > 0
    /\ rectangle[2][1] < dims[1]
    /\ rectangle[2][2] < dims[2]

\* scale_rect: <<left, top, right, bottom>> at the resolution of the video
scale_rect(rect) ==
    <<Trunc(rect[1][1] * video.w, frame_dims[1]),
      Trunc(rect[1][2] * video.h, frame_dims[2]),
      Trunc(rect[2][1] * video.w, frame_dims[1]),
      Trunc(rect[2][2] * video.h, frame_dims[2])>>

\* lines 245-246: (int(window_width), int(frame.shape[0] * frame_ratio))
FrameDims == <<WindowWidth, (video.h * WindowWidth) \div video.w>>

\* mutant of VisibleOf: the projections are not culled
RECURSIVE VisibleOfNoCull(_, _, _)
VisibleOfNoCull(rects, position, dims) ==
    IF rects = <<>> THEN <<>>
    ELSE <<calc_new_rectangle_position(Head(rects), position)>>
         \o VisibleOfNoCull(Tail(rects), position, dims)

\* the projections at frame position of the stored rectangles that pass
\* is_rect_in_bounds, in the order of the store (lines 250-253, 381-386)
RECURSIVE VisibleOf(_, _, _)
VisibleOf(rects, position, dims) ==
    IF rects = <<>> THEN <<>>
    ELSE LET new_rect_pos == calc_new_rectangle_position(Head(rects), position)
             rest == VisibleOf(Tail(rects), position, dims)
         IN  IF is_rect_in_bounds(new_rect_pos, dims)
               THEN <<new_rect_pos>> \o rest
               ELSE rest

\* self.video.read() after set(CAP_PROP_POS_FRAMES, position): the outcomes
\* of frame_grab_success.  What a read outside the video gives is up to the
\* backend of cv2.VideoCapture
GrabOutcomes(position) ==
    IF position \in 0..(video.total - 1)
      THEN {position \notin video.bad}
      ELSE BOOLEAN

(***************************************************************************)
(* Player.start                                                            *)
(***************************************************************************)
\* cv2.setTrackbarPos("P", self.window, self.tracker_position) after
\* tracker_position was given the value new_position: the bar keeps the
\* value within its range 0 .. int(total_frames) - 1.  When that moves the
\* bar, HighGUI may call update_tracker_position with the value of the bar
\* before setTrackbarPos returns, or not, depending on its backend
setTrackbarPos_P(new_position) ==
    LET bar == Max(0, Min(new_position, video.total - 1))
    IN  /\ trackbar_P' = bar
        /\ tracker_position' \in
              (IF bar # trackbar_P THEN {new_position, bar}
               ELSE {new_position})

\* lines 233-283: the part of a pass of the loop before cv2.waitKey.  An
\* exception (the frame that was not read has no shape; get_bbox_color
\* divides by export_interval when it colours a rectangle) is printed by the
\* handler of line 330 and the loop starts its next pass
LoopTop ==
    /\ ppc = "top"
    /\ LET position == IF tracker_position = video.total THEN 0
                       ELSE tracker_position
           render == rerender \/ prev_position # <<position>>
       IN  /\ tracker_position' = position
           /\ \E frame_grab_success \in GrabOutcomes(position) :
                IF ~render
                  THEN /\ prev_position' = <<position>>
                       /\ ppc' = "wait"
                       /\ caught' = ""
                       /\ UNCHANGED <<frame_dims, rerender, shown>>
                  ELSE IF ~frame_grab_success
                    THEN /\ caught' = "AttributeError"
                         /\ UNCHANGED <<frame_dims, rerender, prev_position,
                                        ppc, shown>>
                    ELSE /\ frame_dims' = FrameDims
                         /\ IF /\ VisibleOf(rectangles, position, FrameDims) # <<>>
                               /\ export_interval = 0
                              THEN /\ caught' = "ZeroDivisionError"
                                   /\ UNCHANGED <<rerender, prev_position, ppc,
                                                  shown>>
                              ELSE /\ shown' = VisibleOf(rectangles, position,
                                                         FrameDims)
                                   /\ rerender' = FALSE
                                   /\ prev_position' = <<position>>
                                   /\ ppc' = "wait"
                                   /\ caught' = ""
    /\ last_key' = Unread
    /\ UNCHANGED <<video, calibVars, rectangles, status, down, trackbar_P,
                   exportVars, diskVars, verifyVars, storageVars, callVars>>

\* the dict of lines 286-296, for the keys it holds
KeyTable == {KeyS, KeyW, KeyA, KeyD, KeyE, KeyZ, KeyNone, KeyShift, KeyEsc}

StatusOf(key) ==
    CASE key = KeyS -> "stay"
      [] key = KeyW -> "play"
      [] key = KeyA -> "prev_frame"
      [] key = KeyD -> "next_frame"
      [] key = KeyE -> "export"
      [] key = KeyZ -> "remove_last"
      [] key = KeyEsc -> "exit"
      [] OTHER -> status

\* mutant of remove_last: the IndexError of an empty store is not caught and
\* ends start
remove_last_uncaught ==
    IF rectangles = <<>>
      THEN /\ status' = "remove_last"
           /\ ppc' = "exited"
           /\ caught' = "IndexError"
           /\ UNCHANGED rectangles
      ELSE /\ rectangles' = Pop(rectangles)
           /\ status' = "stay"
           /\ ppc' = "top"
           /\ caught' = ""

\* status == "remove_last", lines 322-324: pop() of an empty list raises
\* IndexError, which the handler of line 330 prints; the pass ends there,
\* before self.status = "stay"
remove_last ==
    IF rectangles = <<>>
      THEN /\ status' = "remove_last"
           /\ ppc' = "top"
           /\ caught' = "IndexError"
           /\ UNCHANGED rectangles
      ELSE /\ rectangles' = Pop(rectangles)
           /\ status' = "stay"
           /\ ppc' = "top"
           /\ caught' = ""

\* mutant of UnmappedKey: the lookup falls back to "stay"
UnmappedKeyStays ==
    /\ status' = "stay"
    /\ tracker_position' = trackbar_P
    /\ ppc' = "top"
    /\ caught' = ""
    /\ UNCHANGED <<trackbar_P, rectangles, exportVars>>

\* line 296 for a key the dict does not hold: KeyError is raised before
\* self.status is assigned, the handler of line 330 prints it and the pass
\* ends
UnmappedKey ==
    /\ ppc' = "top"
    /\ caught' = "KeyError"
    /\ UNCHANGED <<status, tracker_position, trackbar_P, rectangles,
                   exportVars>>

\* lines 285-331: cv2.waitKey returns key and the rest of the pass runs.  A
\* key the dict does not hold raises KeyError at line 296, before
\* self.status is assigned
WaitKey(key) ==
    /\ ppc = "wait"
    /\ IF key \notin KeyTable
         THEN UnmappedKey
         ELSE LET new_status == StatusOf(key)
              IN CASE new_status = "play" ->
                        /\ setTrackbarPos_P(tracker_position + 1)
                        /\ status' = "play"
                        /\ ppc' = "top"
                        /\ caught' = ""
                        /\ UNCHANGED <<rectangles, exportVars>>
                   [] new_status = "stay" ->
                        /\ tracker_position' = trackbar_P
                        /\ status' = "stay"
                        /\ ppc' = "top"
                        /\ caught' = ""
                        /\ UNCHANGED <<trackbar_P, rectangles, exportVars>>
                   [] new_status = "prev_frame" ->
                        /\ tracker_position > -MaxBelow
                        /\ setTrackbarPos_P(tracker_position - 1)
                        /\ status' = "stay"
                        /\ ppc' = "top"
                        /\ caught' = ""
                        /\ UNCHANGED <<rectangles, exportVars>>
                   [] new_status = "next_frame" ->
                        /\ setTrackbarPos_P(tracker_position + 1)
                        /\ status' = "stay"
                        /\ ppc' = "top"
                        /\ caught' = ""
                        /\ UNCHANGED <<rectangles, exportVars>>
                   [] new_status = "export" ->
                        \* self.export() is entered: lines 363-375
                        /\ status' = "export"
                        /\ ppc' = "export"
                        /\ caught' = ""
                        /\ frame_index' = 0
                        /\ dataset_dicts' = <<>>
                        /\ exported_frames_count' = 0
                        /\ sampled' = <<>>
                        /\ written' = {}
                        /\ UNCHANGED <<tracker_position, trackbar_P, rectangles>>
                   [] new_status = "remove_last" ->
                        /\ remove_last
                        /\ UNCHANGED <<tracker_position, trackbar_P, exportVars>>
                   [] new_status = "exit" ->
                        /\ status' = "exit"
                        /\ ppc' = "exited"
                        /\ caught' = ""
                        /\ UNCHANGED <<tracker_position, trackbar_P, rectangles,
                                       exportVars>>
    /\ last_key' = key
    /\ UNCHANGED <<video, calibVars, prev_position, rerender, down, frame_dims,
                   shown, diskVars, verifyVars, storageVars, callVars>>

(***************************************************************************)
(* Player.export                                                           *)
(***************************************************************************)
\* the annotations of lines 405-409
RECURSIVE Annotations(_)
Annotations(rects) ==
    IF rects = <<>> THEN <<>>
    ELSE <<[bbox |-> scale_rect(Head(rects)), bbox_mode |-> 0,
            category_id |-> Head(rects)[4]]>> \o Annotations(Tail(rects))

\* the dict of lines 400-410; the frame index stands for the file path and
\* the image id, which are made of the video name and the frame index
DatasetDict(index, rectangles_to_export) ==
    [file_name |-> index, width |-> video.w, height |-> video.h,
     image_id |-> index, annotations |-> Annotations(rectangles_to_export)]

\* mutant of IsSampled: the offset is subtracted
IsSampledShifted(index) == (index - export_offset) % export_interval = 0

\* line 378: the frame is one the export considers
IsSampled(index) == (export_offset + index) % export_interval = 0

\* mutant of NothingToExport: no frame is skipped
NothingToExportNever(rectangles_to_export) == FALSE

\* lines 388-390: nothing to export for this frame
NothingToExport(rectangles_to_export) == Len(rectangles_to_export) = 0

\* an exception leaves export: its locals are gone, and start prints the
\* exception at line 331 and goes on; self.status is still "export"
ExportRaised ==
    /\ ppc' = "top"
    /\ frame_index' = 0
    /\ dataset_dicts' = <<>>
    /\ exported_frames_count' = 0
    /\ sampled' = <<>>
    /\ written' = {}

\* mutant of GrabFailed: the frame is passed over and the loop goes on
GrabFailedContinues ==
    /\ frame_index' = frame_index + 1
    /\ UNCHANGED <<ppc, dataset_dicts, exported_frames_count, sampled,
                   written, image_files, caught>>

\* what follows a failed frame grab, line 418
GrabFailed ==
    /\ ExportRaised
    /\ caught' = "Exception"
    /\ UNCHANGED image_files

\* one pass of the for loop of line 376, for frame_index.  With
\* export_interval = 0 line 378 raises ZeroDivisionError
ExportFrame ==
    /\ ppc = "export"
    /\ frame_index < video.total
    /\ IF export_interval = 0
         THEN /\ ExportRaised
              /\ caught' = "ZeroDivisionError"
              /\ UNCHANGED image_files
         ELSE IF ~IsSampled(frame_index)
           THEN /\ frame_index' = frame_index + 1
                /\ UNCHANGED <<dataset_dicts, exported_frames_count, sampled,
                               written, image_files, ppc, caught>>
           ELSE LET rectangles_to_export ==
                        VisibleOf(rectangles, frame_index, frame_dims)
                IN  IF NothingToExport(rectangles_to_export)
                      THEN /\ sampled' = Append(sampled, frame_index)
                           /\ frame_index' = frame_index + 1
                           /\ UNCHANGED <<dataset_dicts, exported_frames_count,
                                          written, image_files, ppc, caught>>
                      ELSE \E frame_grab_success \in GrabOutcomes(frame_index) :
                             IF frame_grab_success
                               THEN /\ sampled' = Append(sampled, frame_index)
                                    /\ dataset_dicts' =
                                         Append(dataset_dicts,
                                                DatasetDict(frame_index,
                                                    rectangles_to_export))
                                    /\ image_files' =
                                         image_files \cup {frame_index}
                                    /\ written' = written \cup {frame_index}
                                    /\ exported_frames_count' =
                                         exported_frames_count + 1
                                    /\ frame_index' = frame_index + 1
                                    /\ UNCHANGED <<ppc, caught>>
                               ELSE GrabFailed
    /\ UNCHANGED <<video, calibVars, rectangles, status, tracker_position,
                   prev_position, rerender, down, frame_dims, trackbar_P,
                   shown, last_key, dataset_json, config_json, exported,
                   verifyVars, storageVars, callVars>>

\* what the session holds that the sidecar is to keep
Held == [rectangles |-> rectangles, radius |-> radius,
         max_angle |-> max_angle, export_interval |-> export_interval,
         export_offset |-> export_offset]

\* lines 420-439: the loop is over, both JSON files are written and export
\* returns; then lines 319-320 and 326-328: status "exit", window destroyed,
\* break
ExportReturn ==
    /\ ppc = "export"
    /\ frame_index = video.total
    /\ dataset_json' = <<dataset_dicts>>
    /\ config_json' = DumpConfig(rectangles, radius, max_angle,
                                 export_interval, export_offset)
    /\ exported' = <<Held>>
    /\ status' = "exit"
    /\ ppc' = "exited"
    /\ UNCHANGED <<video, calibVars, rectangles, tracker_position,
                   prev_position, rerender, down, frame_dims, trackbar_P,
                   screenVars, last_key, exportVars, image_files, verifyVars,
                   storageVars, callVars>>

(***************************************************************************)
(* Storage.download_videos and its tasks, and Main.__init__ which calls    *)
(* it.  Two processes may run the labelling entry point for the same       *)
(* recording set; each task runs on a thread of its process's executor.    *)
(***************************************************************************)
\* bound: objects the bucket holds for the recording set
MaxObjects == 2
\* bound: objects the bucket holds when two processes fetch the set
MaxShared == 1

Objects == 1..MaxObjects

\* the processes that run Main for the recording set
Runs == {1, 2}

\* no process has started: the local folder may or may not exist and holds
\* no video
StorageFresh ==
    /\ videos_dir \in BOOLEAN
    /\ mp4 = [o \in Objects |-> FALSE]
    /\ avi = [o \in Objects |-> "absent"]
    /\ rpc = [r \in Runs |-> "idle"]
    /\ tpc = [r \in Runs |-> [o \in Objects |-> "unsubmitted"]]
    /\ downloads = [o \in Objects |-> 0]
    /\ conversions = [o \in Objects |-> 0]
    /\ clash = [o \in Objects |-> FALSE]
    /\ began_after = {}

\* one process is about to fetch the objects of the recording set
StorageInit ==
    /\ objects \in {1..n : n \in 0..MaxObjects}
    /\ StorageFresh

\* two processes are about to fetch the same objects
StorageInitShared ==
    /\ objects \in {1..n : n \in 0..MaxShared}
    /\ StorageFresh

\* no function is called on its own
CallIdle == call = <<>> /\ ret = <<>>

\* the variables of Storage while a Player or a Verify process is looked at
StorageIdle ==
    /\ objects = {}
    /\ videos_dir = TRUE
    /\ mp4 = [o \in Objects |-> FALSE]
    /\ avi = [o \in Objects |-> "absent"]
    /\ rpc = [r \in Runs |-> "idle"]
    /\ tpc = [r \in Runs |-> [o \in Objects |-> "unsubmitted"]]
    /\ downloads = [o \in Objects |-> 0]
    /\ conversions = [o \in Objects |-> 0]
    /\ clash = [o \in Objects |-> FALSE]
    /\ began_after = {}

\* a task of another process for the object has run to its end
DoneElsewhere(r, o) == \E q \in Runs \ {r} : tpc[q][o] = "done"

\* lines 36-39: the objects are listed, the executor is made with
\* max_workers = len(objects), which raises ValueError for 0, and a task is
\* submitted for each object.  The processes are numbered in the order in
\* which they get here
download_videos(r) ==
    /\ rpc[r] = "idle"
    /\ \A q \in Runs : q < r => rpc[q] # "idle"
    /\ IF objects = {}
         THEN /\ rpc' = [rpc EXCEPT ![r] = "raised"]
              /\ UNCHANGED <<tpc, began_after>>
         ELSE /\ rpc' = [rpc EXCEPT ![r] = "waiting"]
              /\ tpc' = [tpc EXCEPT ![r] =
                            [o \in Objects |->
                               IF o \in objects THEN "line57" ELSE @[o]]]
              /\ began_after' = began_after \cup
                    {<<r, o>> : o \in {x \in objects : DoneElsewhere(r, x)}}
    /\ UNCHANGED <<objects, videos_dir, mp4, avi, downloads, conversions,
                   clash, verifyVars, playerVars, callVars>>

\* mutant of isfile_video: the local file is never found
isfile_video_never(o) == FALSE

\* line 57: os.path.isfile(video_path)
isfile_video(o) == mp4[o]

\* line 59: os.path.isfile(video_path_avi)
isfile_avi(o) == avi[o] # "absent"

\* line 57: the test; download_file is called when the file is not there
Line57(r, o) ==
    /\ tpc[r][o] = "line57"
    /\ tpc' = [tpc EXCEPT ![r][o] =
                  IF isfile_video(o) THEN "line59" ELSE "download"]
    /\ UNCHANGED <<objects, videos_dir, mp4, avi, rpc, downloads,
                   conversions, clash, began_after, verifyVars, playerVars,
                   callVars>>

\* line 58: download_file ends; it returns with the file in place, or
\* raises, as it must when the folder is not there
DownloadEnd(r, o, ok) ==
    /\ tpc[r][o] = "download"
    /\ ok => videos_dir
    /\ IF ok
         THEN /\ mp4' = [mp4 EXCEPT ![o] = TRUE]
              /\ downloads' = [downloads EXCEPT ![o] = @ + 1]
              /\ tpc' = [tpc EXCEPT ![r][o] = "line59"]
         ELSE /\ tpc' = [tpc EXCEPT ![r][o] = "raised"]
              /\ UNCHANGED <<mp4, downloads>>
    /\ UNCHANGED <<objects, videos_dir, avi, rpc, conversions, clash,
                   began_after, verifyVars, playerVars, callVars>>

\* line 59: the test; FFmpeg is run when the file is not there
Line59(r, o) ==
    /\ tpc[r][o] = "line59"
    /\ tpc' = [tpc EXCEPT ![r][o] =
                  IF isfile_avi(o) THEN "done" ELSE "ffmpeg"]
    /\ UNCHANGED <<objects, videos_dir, mp4, avi, rpc, downloads,
                   conversions, clash, began_after, verifyVars, playerVars,
                   callVars>>

\* line 60: the FFmpeg process opens its output.  When another task has
\* made the file since the test of line 59, FFmpeg either refuses to
\* overwrite, and run() raises, or truncates the file and writes it
FfmpegOpen(r, o, overwrite) ==
    /\ tpc[r][o] = "ffmpeg"
    /\ IF avi[o] # "absent" /\ ~overwrite
         THEN /\ tpc' = [tpc EXCEPT ![r][o] = "raised"]
              /\ UNCHANGED <<avi, clash>>
         ELSE /\ overwrite => avi[o] # "absent"
              /\ tpc' = [tpc EXCEPT ![r][o] = "convert"]
              /\ avi' = [avi EXCEPT ![o] = "partial"]
              /\ clash' = [clash EXCEPT ![o] =
                             @ \/ \E q \in Runs \ {r} : tpc[q][o] = "convert"]
    /\ UNCHANGED <<objects, videos_dir, mp4, rpc, downloads, conversions,
                   began_after, verifyVars, playerVars, callVars>>

\* line 60: FFmpeg ends; run() returns, or raises and leaves what was
\* written
ConvertEnd(r, o, ok) ==
    /\ tpc[r][o] = "convert"
    /\ IF ok
         THEN /\ avi' = [avi EXCEPT ![o] =
                           IF clash[o] THEN "garbled" ELSE "complete"]
              /\ conversions' = [conversions EXCEPT ![o] = @ + 1]
              /\ tpc' = [tpc EXCEPT ![r][o] = "done"]
         ELSE /\ tpc' = [tpc EXCEPT ![r][o] = "raised"]
              /\ UNCHANGED <<avi, conversions>>
    /\ UNCHANGED <<objects, videos_dir, mp4, rpc, downloads, clash,
                   began_after, verifyVars, playerVars, callVars>>

\* every task the process submitted has ended
AllEnded(r) == \A o \in objects : tpc[r][o] \in {"done", "raised"}

\* mutant of ExitOutcome: the result of every future is asked for
ExitOutcomeResult(r) ==
    IF \E o \in objects : tpc[r][o] = "raised" THEN "raised" ELSE "returned"

\* lines 37-39: the futures submit returns are dropped, so what a task
\* raised stays in its future
ExitOutcome(r) == "returned"

\* line 37: the with block is left, which waits for the tasks
download_videos_return(r) ==
    /\ rpc[r] = "waiting"
    /\ AllEnded(r)
    /\ rpc' = [rpc EXCEPT ![r] = ExitOutcome(r)]
    /\ UNCHANGED <<objects, videos_dir, mp4, avi, tpc, downloads,
                   conversions, clash, began_after, verifyVars, playerVars,
                   callVars>>

\* main.py lines 15-16: the folder is made after download_videos
makedirs(r) ==
    /\ rpc[r] = "returned"
    /\ videos_dir' = TRUE
    /\ rpc' = [rpc EXCEPT ![r] = "main"]
    /\ UNCHANGED <<objects, mp4, avi, tpc, downloads, conversions, clash,
                   began_after, verifyVars, playerVars, callVars>>

(***************************************************************************)
(* Specifications.                                                         *)
(***************************************************************************)
\* the variables of Verify while a Player process runs
VerifyIdle ==
    /\ all_data = <<>>
    /\ verified_data = <<>>
    /\ i = 0
    /\ actions = <<>>
    /\ key_code = 0
    /\ vpc = "idle"
    /\ keys = <<>>
    /\ tick = 0
    /\ data = [train |-> <<>>, val |-> <<>>]
    /\ file_name = <<>>
    /\ dataset_files = {}
    /\ annotations_json = [train |-> <<>>, val |-> <<>>]
    /\ uploaded = [train |-> <<>>, val |-> <<>>]
    /\ dpc = "idle"

\* the variables of Player that no method called on its own reads or writes
PlayerAtRest ==
    /\ export_interval = DefaultInterval
    /\ export_offset = DefaultOffset
    /\ rectangles = <<>>
    /\ status = "stay"
    /\ tracker_position = 0
    /\ prev_position = <<>>
    /\ rerender = FALSE
    /\ down = <<>>
    /\ frame_dims = <<>>
    /\ trackbar_P = 0
    /\ ppc = "idle"
    /\ shown = <<>>
    /\ caught = ""
    /\ last_key = Unread
    /\ frame_index = 0
    /\ dataset_dicts = <<>>
    /\ exported_frames_count = 0
    /\ image_files = {}
    /\ dataset_json = <<>>
    /\ config_json = <<>>
    /\ sampled = <<>>
    /\ written = {}
    /\ exported = <<>>

\* the variables of Player while a Verify process runs
PlayerIdle ==
    /\ video = [w |-> 0, h |-> 0, total |-> 0, bad |-> {}]
    /\ radius = DefaultRadius
    /\ max_angle = DefaultMaxAngle
    /\ PlayerAtRest

InitVerify == VerifyInit /\ PlayerIdle /\ StorageIdle /\ CallIdle

NextVerify ==
    \/ VerifyKey
    \/ VerifyBreak
    \/ ExportToDataset
    \/ \E set_type \in SetTypes : SplitOne(set_type)
    \/ \E data_type \in SetTypes : UploadAndWrite(data_type)

SpecVerify == InitVerify /\ [][NextVerify]_vars

\* display_image blocks in waitKey(0) until a key arrives; the user keeps
\* pressing keys until the session is over, so the loop keeps taking passes
SpecVerifyLive == InitVerify /\ [][NextVerify]_vars /\ WF_vars(NextVerify)

Init == PlayerInit /\ VerifyIdle /\ StorageIdle /\ CallIdle

Next ==
    \/ LoopTop
    \/ \E key \in KeyInputs : WaitKey(key)
    \/ \E position \in 0..(video.total - 1) : update_tracker_position(position)
    \/ \E new_radius \in RadiusVals : update_radius(new_radius)
    \/ \E angle \in AngleVals : update_angle(angle)
    \/ \E new_interval \in IntervalVals : update_interval(new_interval)
    \/ \E new_offset \in OffsetVals : update_offset(new_offset)
    \/ \E m \in MouseEvents : onMouseClick(m[1], m[2], m[3], m[4])
    \/ ExportFrame
    \/ ExportReturn

\* what the export keystroke can find: a session that, inside one
\* cv2.waitKey after its first pass at frame 0, was given rectangles (drawn
\* from PointB, at frames 0 and 1 the trackbar "P" was dragged to) and
\* calibration values, and whose trackbar "P" was dragged back to 0
SeedPositions == {0, 1}

\* a point on the left edge of the window
PointEdge == <<0, 100>>

\* the box dragged between PointA and PointB, of either category at either
\* position, the box of a click at PointB with no drag, and the box dragged
\* from PointB to the left edge of the window
SeedRects ==
    {<<PointA, PointB, position, category>> :
        position \in SeedPositions, category \in {0, 1}}
    \cup {<<PointB, PointB, 0, 0>>, <<PointEdge, PointB, 0, 0>>}

\* bound: rectangles of a session that is exported
MaxSeedRects == 2

RECURSIVE SeqsUpTo(_, _)
SeqsUpTo(S, n) ==
    IF n = 0 THEN {<<>>}
    ELSE LET shorter == SeqsUpTo(S, n - 1)
         IN  shorter \cup {Append(q, x) : q \in shorter, x \in S}

\* short clips with any calibration of the model and up to MaxSeedRects
\* rectangles, every frame reading or one of frames 1 and 2 not; and a clip
\* of 100 frames with the default cadence, up to one rectangle, every frame
\* reading or frame 33 not
ExportScenarios ==
    {[video |-> [w |-> d[1], h |-> d[2], total |-> MaxFrames, bad |-> b],
      radius |-> r, max_angle |-> a, export_interval |-> n,
      export_offset |-> o, rectangles |-> q] :
        d \in VideoDims, b \in {{}, {1}, {2}},
        r \in {DefaultRadius, 2000}, a \in {DefaultMaxAngle, 8},
        n \in {DefaultInterval, 0, 2}, o \in {DefaultOffset, 0},
        q \in SeqsUpTo(SeedRects, MaxSeedRects)}
    \cup
    {[video |-> [w |-> d[1], h |-> d[2], total |-> 100, bad |-> b],
      radius |-> DefaultRadius, max_angle |-> a,
      export_interval |-> DefaultInterval, export_offset |-> DefaultOffset,
      rectangles |-> q] :
        d \in VideoDims, b \in {{}, {33}}, a \in {DefaultMaxAngle, 8},
        q \in SeqsUpTo(SeedRects, 1)}

\* a session of one of the scenarios, inside cv2.waitKey
AtWaitKey(scenarios) ==
    /\ VerifyIdle
    /\ StorageIdle
    /\ CallIdle
    /\ \E sc \in scenarios :
          /\ video = sc.video
          /\ radius = sc.radius
          /\ max_angle = sc.max_angle
          /\ export_interval = sc.export_interval
          /\ export_offset = sc.export_offset
          /\ rectangles = sc.rectangles
    /\ status = "stay"
    /\ tracker_position = 0
    /\ prev_position = <<0>>
    /\ rerender = TRUE
    /\ down = IF rectangles = <<>> THEN <<>> ELSE PointB
    /\ frame_dims = FrameDims
    /\ trackbar_P = 0
    /\ ppc = "wait"
    /\ shown = <<>>
    /\ caught = ""
    /\ last_key = Unread
    /\ frame_index = 0
    /\ dataset_dicts = <<>>
    /\ exported_frames_count = 0
    /\ image_files = {}
    /\ dataset_json = <<>>
    /\ config_json = <<>>
    /\ sampled = <<>>
    /\ written = {}
    /\ exported = <<>>

InitExport == AtWaitKey(ExportScenarios)

NextExport ==
    \/ LoopTop
    \/ \E key \in {KeyE, KeyNone, KeyEsc} : WaitKey(key)
    \/ ExportFrame
    \/ ExportReturn
    \/ Open

\* the export keystroke or the exit keystroke in such a session, the passes
\* of start that follow with no further input, and Main run again on the
\* same video after the player was left
SpecExport == InitExport /\ [][NextExport]_vars

\* the same on videos narrower than, as wide as and wider than the window,
\* with a rectangle drawn from one or two pixels inside the top left corner
PointNear == <<1, 1>>
PointNearer == <<2, 2>>

ResolutionDims == {<<640, 480>>, <<1280, 720>>, <<1920, 1080>>}

ResolutionRects ==
    {<<from, PointB, position, 0>> :
        from \in {PointNear, PointNearer, PointA}, position \in SeedPositions}

ResolutionScenarios ==
    {[video |-> [w |-> d[1], h |-> d[2], total |-> MaxFrames, bad |-> {}],
      radius |-> DefaultRadius, max_angle |-> a, export_interval |-> 2,
      export_offset |-> 0, rectangles |-> q] :
        d \in ResolutionDims, a \in {DefaultMaxAngle, 8},
        q \in SeqsUpTo(ResolutionRects, 1)}

InitResolution == AtWaitKey(ResolutionScenarios)

SpecResolution == InitResolution /\ [][NextExport]_vars

\* a labelling session in which the calibration trackbars are left alone
NextCommands ==
    \/ LoopTop
    \/ \E key \in KeyInputs : WaitKey(key)
    \/ \E position \in 0..(video.total - 1) : update_tracker_position(position)
    \/ \E m \in MouseEvents : onMouseClick(m[1], m[2], m[3], m[4])
    \/ ExportFrame
    \/ ExportReturn

SpecCommands == Init /\ [][NextCommands]_vars

\* what the processes of the set runs can do
MainStep(runs) ==
    \/ \E r \in runs : download_videos(r)
    \/ \E r \in runs, o \in Objects : Line57(r, o)
    \/ \E r \in runs, o \in Objects, ok \in BOOLEAN : DownloadEnd(r, o, ok)
    \/ \E r \in runs, o \in Objects : Line59(r, o)
    \/ \E r \in runs, o \in Objects, overwrite \in BOOLEAN :
          FfmpegOpen(r, o, overwrite)
    \/ \E r \in runs, o \in Objects, ok \in BOOLEAN : ConvertEnd(r, o, ok)
    \/ \E r \in runs : download_videos_return(r)
    \/ \E r \in runs : makedirs(r)

\* one process fetches the recording set
InitStorage == StorageInit /\ PlayerIdle /\ VerifyIdle /\ CallIdle

NextStorage == MainStep({1})

SpecStorage == InitStorage /\ [][NextStorage]_vars

\* every task that was submitted gets a thread of its executor, whose size
\* is the number of tasks, and download_file and FFmpeg end
SpecStorageLive == SpecStorage /\ WF_vars(NextStorage)

\* two processes fetch the recording set, the second starting at any time
\* after the first
InitRerun == StorageInitShared /\ PlayerIdle /\ VerifyIdle /\ CallIdle

NextRerun == MainStep(Runs)

SpecRerun == InitRerun /\ [][NextRerun]_vars

(***************************************************************************)
(* Player.is_rect_in_bounds called on its own.                             *)
(***************************************************************************)
\* the coordinates of the rectangles handed to the viewport check
ViewportLefts == {0, 1, 400}
ViewportTops == {0, 1, 200}
ViewportRights == {450, 499, 500, 999, 1000}
ViewportBottoms == {250, 280, 281, 561, 562}

\* the frame dimensions handed to the viewport check
ViewportDims == {<<500, 281>>, <<1000, 281>>, <<500, 562>>, <<1000, 562>>}

\* a rectangle and two frame dimensions
ViewportCalls ==
    {[rectangle |-> <<<<l, t>>, <<r, b>>, 0, 0>>, dims1 |-> d1, dims2 |-> d2] :
        l \in ViewportLefts, t \in ViewportTops, r \in ViewportRights,
        b \in ViewportBottoms, d1 \in ViewportDims, d2 \in ViewportDims}

InitViewport ==
    /\ PlayerIdle
    /\ VerifyIdle
    /\ StorageIdle
    /\ call \in ViewportCalls
    /\ ret = <<>>

\* is_rect_in_bounds(rectangle, dims1), then is_rect_in_bounds(rectangle,
\* dims2)
CheckViewport ==
    /\ call # <<>>
    /\ Len(ret) < 2
    /\ ret' = Append(ret, is_rect_in_bounds(call.rectangle,
                                            IF ret = <<>> THEN call.dims1
                                            ELSE call.dims2))
    /\ UNCHANGED <<call, verifyVars, playerVars, storageVars>>

NextViewport == CheckViewport

SpecViewport == InitViewport /\ [][NextViewport]_vars

(***************************************************************************)
(* Player.calc_new_rectangle_position called on its own.                   *)
(***************************************************************************)
\* the corners of the rectangles handed to the projection: the centre of a
\* rectangle from 599 to 680 or from 600 to 681 is half a pixel from the
\* vertical line through the pivot of a video 1280 wide
ProjectionLefts == {100, 599, 600, 630}
ProjectionRights == {300, 680, 681, 700}
ProjectionTops == {100}
ProjectionBottoms == {250, 400}

\* max_angle: the default of line 47 and the value of AngleVals
ProjectionAngles == {DefaultMaxAngle} \cup AngleVals

\* a rectangle anchored at frame f0 and the frame f1 it is projected to
ProjectionCalls ==
    {[rectangle |-> <<<<l, t>>, <<r, b>>, f0, 0>>, f1 |-> f1] :
        l \in ProjectionLefts, t \in ProjectionTops, r \in ProjectionRights,
        b \in ProjectionBottoms, f0 \in SeedPositions, f1 \in 0..(MaxFrames - 1)}

InitProjection ==
    /\ video \in Videos
    /\ radius \in RadiusVals
    /\ max_angle \in ProjectionAngles
    /\ PlayerAtRest
    /\ VerifyIdle
    /\ StorageIdle
    /\ call \in ProjectionCalls
    /\ ret = <<>>

\* calc_new_rectangle_position(call.rectangle, call.f1)
Project ==
    /\ call # <<>>
    /\ ret = <<>>
    /\ ret' = <<calc_new_rectangle_position(call.rectangle, call.f1)>>
    /\ UNCHANGED <<call, verifyVars, playerVars, storageVars>>

\* the rectangle that was returned, anchored at the frame it was projected
\* to, is projected to the frame the first rectangle was anchored at
ProjectBack ==
    /\ Len(ret) = 1
    /\ ret' = Append(ret, calc_new_rectangle_position(
                              <<ret[1][1], ret[1][2], call.f1, ret[1][4]>>,
                              call.rectangle[3]))
    /\ UNCHANGED <<call, verifyVars, playerVars, storageVars>>

NextProjection == Project \/ ProjectBack

SpecProjection == InitProjection /\ [][NextProjection]_vars

\* a labelling session on a video never exported:
\* Player(avi_file, export_id).start()
Spec == Init /\ [][Next]_vars

(***************************************************************************)
(* Claims about the review loop.                                           *)
(***************************************************************************)
Accept == KeyPlus
Undo == KeyMinus
Skip == KeyEnter

\* a pass of the loop is about to display all_data[i] and read a key
Prompting == vpc = "loop" /\ ~AtEnd

\* C1: over 5 candidates, from cursor 0 and an empty accepted list, the keys
\* Accept, Accept, Undo, Skip, Accept leave accepted = [candidate0,
\* candidate2] and the cursor at 3.
C1_Trace ==
    (Len(all_data) = 5 /\ keys = <<Accept, Accept, Undo, Skip, Accept>>)
        => (verified_data = <<all_data[1], all_data[3]>> /\ i = 3)

C1_Witness ==
    /\ Len(all_data) = 5
    /\ keys = <<Accept, Accept, Undo, Skip, Accept>>
    /\ vpc = "loop"

\* C2: an Undo at a cursor i >= 1 moves the cursor back by exactly one; it
\* removes the last element of accepted if and only if the action logged
\* for candidate i - 1 is "added", and leaves accepted alone when it is
\* "skipped"; the loop goes on, displaying candidate i - 1 next.
C2_UndoStep ==
    [][(Prompting /\ i >= 1 /\ key_code' = Undo) =>
          /\ (i - 1) \in DOMAIN actions
          /\ i' = i - 1
          /\ vpc' = "loop"
          /\ actions[i - 1] = "added" =>
                (verified_data # <<>> /\ verified_data' = Pop(verified_data))
          /\ actions[i - 1] = "skipped" => verified_data' = verified_data
          /\ actions[i - 1] \in {"added", "skipped"}]_vars

\* an Undo has just moved back over a skipped record, with a record accepted
\* before it still in the list
C2_Witness ==
    /\ keys = <<Accept, Skip, Undo>>
    /\ i = 1
    /\ verified_data = <<all_data[1]>>
    /\ actions[1] = "skipped"

\* C3: an Undo with no log entry at i - 1 (cursor 0, the session start)
\* raises nothing and leaves the cursor, the accepted list and the log
\* unchanged; the same candidate is prompted again.
C3_UndoAtStart ==
    [][(Prompting /\ (i = 0 \/ (i - 1) \notin DOMAIN actions)
                  /\ key_code' = Undo) =>
          /\ i = 0
          /\ UNCHANGED <<i, verified_data, actions>>
          /\ vpc' = "loop"]_vars

\* the first key of a session was Undo
C3_Witness ==
    /\ keys = <<Undo>>
    /\ i = 0
    /\ vpc = "loop"

\* C4: the loop exits exactly when i equals the number of candidates (with
\* no candidates, before any key is read), never earlier; and a session in
\* which only finitely many Undo keys are pressed reaches that state and
\* terminates.
C4_Termination ==
    /\ [](vpc = "done" => i = Len(all_data))
    /\ [](Len(all_data) = 0 => keys = <<>>)
    /\ [][(vpc = "loop" /\ i = Len(all_data)) =>
              (vpc' = "done" /\ UNCHANGED <<i, verified_data, keys>>)]_vars
    /\ [][(vpc = "loop" /\ i # Len(all_data)) => vpc' # "done"]_vars
    /\ (<>[][key_code' # Undo]_vars) => <>(vpc = "done")

\* a session with an Undo in it has terminated
C4_Witness ==
    /\ vpc = "done"
    /\ Len(all_data) = 2
    /\ keys = <<Accept, Undo, Skip, Accept>>


(***************************************************************************)
(* Claims about Player.export and the sidecar                              *)
(***************************************************************************)
\* the frame indices of S in ascending order
RECURSIVE Ascending(_)
Ascending(S) ==
    IF S = {} THEN <<>>
    ELSE LET least == CHOOSE x \in S : \A y \in S : x <= y
         IN  <<least>> \o Ascending(S \ {least})

\* the export loop is running or has just ended
Exporting == ppc = "export" /\ export_interval > 0

\* C5: while export runs, the frames it has considered so far are, in
\* ascending order, exactly the indices f below the loop index with
\* (export_offset + f) mod export_interval = 0; for a 100 frame video with
\* interval 18 and offset 3 the loop ends having considered 15, 33, 51, 69, 87
C5_Cadence ==
    Exporting =>
      /\ sampled = Ascending({f \in 0..(frame_index - 1) :
                                (export_offset + f) % export_interval = 0})
      /\ (/\ video.total = 100
          /\ export_interval = 18
          /\ export_offset = 3
          /\ frame_index = video.total) => sampled = <<15, 33, 51, 69, 87>>

C5_Witness ==
    /\ ppc = "export"
    /\ video.total = 100
    /\ frame_index = 100
    /\ export_interval = 18
    /\ export_offset = 3
    /\ Len(sampled) = 5

\* C6: no record export builds, and no record of a dataset JSON it wrote, has
\* an empty annotation list, whatever the rectangles and the calibration
C6_NoEmptyRecord ==
    /\ \A k \in 1..Len(dataset_dicts) : Len(dataset_dicts[k].annotations) >= 1
    /\ dataset_json # <<>> =>
         \A k \in 1..Len(dataset_json[1]) :
            Len(dataset_json[1][k].annotations) >= 1

C6_Witness ==
    /\ ppc = "exited"
    /\ dataset_json = <<dataset_dicts>>
    /\ Len(dataset_dicts) >= 1
    /\ Len(sampled) > Len(dataset_dicts)

\* the frames the records of the run name
RecordFrames == {dataset_dicts[k].image_id : k \in 1..Len(dataset_dicts)}

\* a stored rectangle, projected to frame f, lies inside the display frame
SomeRectVisibleAt(f) ==
    \E k \in 1..Len(rectangles) :
       is_rect_in_bounds(calc_new_rectangle_position(rectangles[k], f),
                         frame_dims)

\* C7: when export has returned, a frame has a record exactly when it has an
\* image file written by the run, exactly when it is a sampled frame with a
\* rectangle in bounds; the count printed is the number of records and of
\* images
C7_RecordsAndImages ==
    (ppc = "exited" /\ frame_index = video.total) =>
      /\ \A f \in 0..(video.total - 1) :
            /\ (f \in RecordFrames) <=>
                 (/\ export_interval > 0
                  /\ (export_offset + f) % export_interval = 0
                  /\ SomeRectVisibleAt(f))
            /\ (f \in RecordFrames) <=> (f \in written)
      /\ written \subseteq image_files
      /\ exported_frames_count = Len(dataset_dicts)
      /\ exported_frames_count = Cardinality(written)
      /\ dataset_json = <<dataset_dicts>>

C7_Witness ==
    /\ ppc = "exited"
    /\ frame_index = video.total
    /\ Len(dataset_dicts) >= 2
    /\ Len(sampled) > Len(dataset_dicts)
    /\ \E f \in 0..(video.total - 1) : f \notin Range(sampled)

\* the loop of export is at a sampled frame with a rectangle in bounds that
\* the video does not give
ReadWillFail ==
    /\ Exporting
    /\ frame_index < video.total
    /\ (export_offset + frame_index) % export_interval = 0
    /\ SomeRectVisibleAt(frame_index)
    /\ frame_index \in video.bad

\* C8: when the read of a sampled frame fails, the run stops at that frame:
\* export is left, the dataset JSON and the sidecar are as they were, and the
\* image files written for earlier frames are still there; and no pass of
\* the loop writes either JSON file
C8_FailedRead ==
    /\ [][ReadWillFail =>
            /\ ppc' = "top"
            /\ UNCHANGED <<dataset_json, config_json, image_files>>
            /\ written \subseteq image_files']_vars
    /\ [][(ppc = "export" /\ frame_index < video.total) =>
            UNCHANGED <<dataset_json, config_json>>]_vars

C8_Witness ==
    /\ ppc = "top"
    /\ status = "export"
    /\ export_interval > 0
    /\ image_files # {}
    /\ dataset_json = <<>>
    /\ config_json = <<>>

\* the session was just constructed on a video that has a sidecar
JustOpened == ppc = "top" /\ frame_dims = <<>> /\ config_found

\* C9: a session constructed on a video whose sidecar a successful export
\* wrote holds the rectangles, in their order, and the four calibration
\* values the exporting session held
C9_SidecarRoundTrip ==
    JustOpened =>
      /\ exported # <<>>
      /\ Held = exported[1]
      /\ config_json = DumpConfig(rectangles, radius, max_angle,
                                  export_interval, export_offset)

C9_Witness ==
    /\ JustOpened
    /\ Len(rectangles) = 2
    /\ rectangles[1] # rectangles[2]
    /\ rectangles[1][1] # rectangles[1][2]
    /\ max_angle # DefaultMaxAngle
    /\ export_interval # DefaultInterval

(***************************************************************************)
(* Claims about the commands of Player.start                               *)
(***************************************************************************)
\* C10: undo-last with no rectangle stored changes neither the store, nor
\* the calibration, nor the frame position, and does not end the session:
\* start goes to its next pass, where play, a step, a drawing, export and
\* exit are still taken
C10_UndoLastOnEmpty ==
    /\ [][(/\ ppc = "wait"
            /\ ppc' # "wait"
            /\ rectangles = <<>>
            /\ status' = "remove_last") =>
            /\ ppc' = "top"
            /\ rectangles' = <<>>
            /\ UNCHANGED <<calibVars, tracker_position, video, diskVars>>]_vars
    /\ [](status = "remove_last" /\ ppc = "top" /\ rectangles = <<>> =>
            ENABLED LoopTop)
    /\ [](status = "remove_last" /\ ppc = "wait" /\ rectangles = <<>> =>
            /\ ENABLED (WaitKey(KeyW) /\ status' = "play")
            /\ ENABLED (WaitKey(KeyD) /\ status' = "stay"
                        /\ tracker_position' = tracker_position + 1)
            /\ ENABLED (WaitKey(KeyE) /\ ppc' = "export")
            /\ ENABLED (WaitKey(KeyEsc) /\ ppc' = "exited")
            /\ down # <<>> =>
                 ENABLED (onMouseClick("up", PointA[1], PointA[2], FALSE)
                          /\ Len(rectangles') = Len(rectangles) + 1))

C10_Witness ==
    /\ status = "remove_last"
    /\ rectangles = <<>>
    /\ ppc = "wait"
    /\ prev_position # <<>>

\* C11: every stored rectangle has its top-left corner strictly above and
\* strictly left of its bottom-right corner
C11_StrictCorners ==
    \A k \in 1..Len(rectangles) :
       /\ rectangles[k][1][1] < rectangles[k][2][1]
       /\ rectangles[k][1][2] < rectangles[k][2][2]

\* C12: no step appends a rectangle whose two corners are the same point
C12_ZeroAreaRejected ==
    [][Len(rectangles') > Len(rectangles) =>
         LET added == rectangles'[Len(rectangles')]
         IN  added[1] # added[2]]_vars

\* C13: a pass of start in which cv2.waitKey returns a key the dict does not
\* hold leaves the status, the rectangles and the calibration as they were,
\* whatever the status is; the KeyError is printed and start is at the top
\* of its loop for the next pass
C13_UnmappedKey ==
    [][WaitKey(KeyX) =>
         /\ UNCHANGED <<status, rectangles, calibVars>>
         /\ ppc' = "top"
         /\ caught' = "KeyError"]_vars

C13_Witness ==
    /\ ppc = "top"
    /\ caught = "KeyError"
    /\ status = "play"
    /\ rectangles # <<>>

\* C14: every change of a calibration value by its trackbar sets rerender,
\* and a pass of start that begins with rerender set, at a frame of the
\* video, displays the culled projections under the calibration of that
\* moment, clears rerender and reaches cv2.waitKey
C14_DirtyRedraw ==
    /\ [][(ppc = "wait" /\ calibVars' # calibVars) => rerender']_vars
    /\ [][(/\ ppc = "top"
            /\ rerender
            /\ tracker_position \in 0..video.total) =>
            /\ ppc' = "wait"
            /\ rerender' = FALSE
            /\ shown' = VisibleOf(rectangles, tracker_position', FrameDims)]_vars

\* the projections at frame f of the stored rectangles
ProjectionsAt(f) ==
    [k \in 1..Len(rectangles) |->
        calc_new_rectangle_position(rectangles[k], f)]

\* left > 0, top > 0, right < width, bottom < height
StrictlyInside(r) ==
    /\ r[1][1] > 0
    /\ r[1][2] > 0
    /\ r[2][1] < frame_dims[1]
    /\ r[2][2] < frame_dims[2]

\* C15: what a rendering pass displays, and what export annotates for a
\* frame, are exactly the projections that lie strictly inside the frame on
\* all four sides, in the order of the store and with their coordinates as
\* projected (for export: as scale_rect rescales them)
C15_ViewportCheck ==
    /\ (ppc = "wait" /\ ~rerender) =>
          shown = SelectSeq(ProjectionsAt(prev_position[1]), StrictlyInside)
    /\ ppc \in {"export", "exited"} =>
          \A k \in 1..Len(dataset_dicts) :
             dataset_dicts[k].annotations =
                Annotations(SelectSeq(ProjectionsAt(dataset_dicts[k].image_id),
                                      StrictlyInside))

C15_Witness ==
    /\ ppc = "export"
    /\ ~rerender
    /\ Len(rectangles) = 2
    /\ Len(shown) = 1
    /\ \E k \in 1..Len(rectangles) : ProjectionsAt(0)[k][1][1] = 0
    /\ Len(dataset_dicts) >= 1
    /\ Len(dataset_dicts[1].annotations) = 1

(***************************************************************************)
(* Verify.export_to_dataset: the train and val lists.                      *)
(***************************************************************************)
\* the number of places of the list s that hold the record r
Count(s, r) == Cardinality({k \in 1..Len(s) : s[k] = r})

\* the loop of line 189 has gone through verified_data
SplitDone == uploaded.train # <<>>

\* C16: when the split of a manually verified session is done, each record
\* of verified_data is in exactly one of data["train"] and data["val"] and
\* no other record is in either; each list keeps the order of
\* verified_data; the image of each record is in the folder of the split
\* of its list, its file_name names that folder, and the folders hold no
\* other image; the loop of the split does not raise; and at every record
\* both splits can be chosen
C16_TrainValPartition ==
    /\ dpc = "raised" => uploaded.val # <<>>
    /\ SplitDone =>
          /\ \A r \in Range(all_data) :
                Count(data.train, r) + Count(data.val, r) =
                   IF r \in Range(verified_data) THEN 1 ELSE 0
          /\ \A set_type \in SetTypes :
                LET InSplit(r) == r \in Range(data[set_type])
                IN  /\ data[set_type] = SelectSeq(verified_data, InSplit)
                    /\ \A r \in Range(data[set_type]) :
                          /\ <<set_type, r>> \in dataset_files
                          /\ file_name[r] = <<set_type, r>>
          /\ \A f \in dataset_files : f[2] \in Range(data[f[1]])
    /\ (dpc = "split" /\ Len(data.train) + Len(data.val) < Len(verified_data))
          => \A set_type \in SetTypes : ENABLED SplitOne(set_type)

C16_Witness ==
    /\ dpc = "returned"
    /\ Len(data.val) >= 2
    /\ Len(data.train) >= 1
    /\ Len(verified_data) < Len(all_data)
    /\ data.val[1] < data.train[1]
    /\ data.train[1] < data.val[2]

(***************************************************************************)
(* Storage: running the fetch again, at once, and with failing tasks.      *)
(***************************************************************************)
\* C17: a task that is submitted when a task of another process for the
\* same object has run to its end without raising goes from line 57 to
\* line 59 to its end: it calls neither download_file nor FFmpeg, it does
\* not raise, and none of its steps changes a local file
C17_SecondRunIdle ==
    /\ [](\A t \in began_after :
            tpc[t[1]][t[2]] \in {"line57", "line59", "done"})
    /\ [][\A t \in began_after :
            tpc'[t[1]][t[2]] # tpc[t[1]][t[2]] =>
               UNCHANGED <<mp4, avi, downloads, conversions>>]_vars

C17_Witness ==
    \E t \in began_after :
       /\ tpc[t[1]][t[2]] = "done"
       /\ mp4[t[2]]
       /\ avi[t[2]] = "complete"
       /\ downloads[t[2]] = 1
       /\ conversions[t[2]] = 1

\* C18: when two processes fetch the same object, whatever the
\* interleaving of their tasks, download_file returns at most once for the
\* object and FFmpeg at most once, no two tasks write the converted video at
\* the same time, and when both tasks are done the local files are those
\* one run leaves
C18_ConcurrentSafe ==
    \A o \in Objects :
       /\ downloads[o] <= 1
       /\ conversions[o] <= 1
       /\ ~clash[o]
       /\ (\A r \in Runs : tpc[r][o] = "done") =>
             (mp4[o] /\ avi[o] = "complete")

\* C19: download_videos raises only when no object is listed, never
\* because a task raised; the step in which a task raises leaves the other
\* tasks and the caller alone; and once the tasks are submitted every one of
\* them ends and download_videos returns
C19_FailureIsolated ==
    /\ [](\A r \in Runs : rpc[r] = "raised" => objects = {})
    /\ [][\A r \in Runs, o \in Objects :
            (tpc[r][o] # "raised" /\ tpc'[r][o] = "raised") =>
               /\ \A p \in Objects \ {o} : tpc'[r][p] = tpc[r][p]
               /\ rpc' = rpc]_vars
    /\ \A r \in Runs :
          (rpc[r] = "waiting") ~> (rpc[r] = "returned" /\ AllEnded(r))

C19_Witness ==
    /\ rpc[1] = "returned"
    /\ tpc[1][1] = "raised"
    /\ tpc[1][2] = "done"
    /\ avi[2] = "complete"

(***************************************************************************)
(* Player.__init__: the sidecar at the start of a session.                 *)
(***************************************************************************)
\* the session was just constructed and start has not taken a pass
Constructed == ppc = "top" /\ frame_dims = <<>> /\ shown = <<>>

\* C20: the session Player.__init__ makes holds, when the video has a
\* sidecar, the rectangles and the four calibration values of the sidecar,
\* and when it has none the default calibration and no rectangle; either
\* way nothing was raised and the session is at the top of the loop of
\* start with the status "stay"
C20_SidecarAtStart ==
    Constructed =>
      /\ IF config_json # <<>>
           THEN config_json = DumpConfig(rectangles, radius, max_angle,
                                         export_interval, export_offset)
           ELSE /\ radius = DefaultRadius
                /\ max_angle = DefaultMaxAngle
                /\ export_interval = DefaultInterval
                /\ export_offset = DefaultOffset
                /\ rectangles = <<>>
      /\ status = "stay"
      /\ caught = ""

C20_Witness ==
    /\ Constructed
    /\ config_json # <<>>
    /\ radius # DefaultRadius
    /\ export_offset # DefaultOffset
    /\ Len(rectangles) = 2

(***************************************************************************)
(* Claims about the invariants of a Player session.                        *)
(***************************************************************************)
\* C21: export_interval is a positive integer in every state of a session,
\* whatever the trackbars are set to, so that the test
\* (export_offset + f) % export_interval is defined
C21_IntervalPositive == export_interval > 0

\* C22: every rectangle of the store is anchored at a frame of the video,
\* 0 <= position < total_frames, whatever keys, seeks and draws came before
C22_AnchorInVideo ==
    \A k \in 1..Len(rectangles) : rectangles[k][3] \in 0..(video.total - 1)

(***************************************************************************)
(* Claims about is_rect_in_bounds and calc_new_rectangle_position.         *)
(***************************************************************************)
\* C23: for the same rectangle, when dims2 is no wider and no higher than
\* dims1, a rectangle that is_rect_in_bounds passes for dims2 it passes for
\* dims1 too
C23_ShrinkNeverShows ==
    (/\ Len(ret) = 2
     /\ call.dims2[1] <= call.dims1[1]
     /\ call.dims2[2] <= call.dims1[2]
     /\ ret[2]) => ret[1]

C23_Witness ==
    /\ Len(ret) = 2
    /\ call.dims2[1] < call.dims1[1]
    /\ call.dims2[2] < call.dims1[2]
    /\ ret[2]
    /\ ret[1]
    /\ call.rectangle[2][1] = call.dims2[1] - 1

\* the largest distance in pixels between a corner coordinate of rectangle a
\* and the same coordinate of rectangle b
CornerDistance(a, b) ==
    LET Abs(v) == IF v < 0 THEN -v ELSE v
        d == {Abs(a[k][c] - b[k][c]) : k \in {1, 2}, c \in {1, 2}}
    IN  CHOOSE m \in d : \A v \in d : v <= m

\* what the two int() of line 191, one in each projection, can move a corner
\* by
RoundTripTolerance == 2

\* the centre of the rectangle is not on the vertical line through the
\* pivot: gamma_old of line 178 is not 0
OffPivotLine(rectangle) == rectangle[1][1] + rectangle[2][1] # video.w

\* C24: a rectangle anchored at frame f0 whose centre is not on the vertical
\* line through the pivot, projected to frame f1 and the result projected
\* back to f0 under the same calibration, has its corners back within the
\* tolerance of the two truncations.
C24_RoundTrip ==
    (Len(ret) = 2 /\ OffPivotLine(call.rectangle))
        => CornerDistance(ret[2], call.rectangle) <= RoundTripTolerance

(***************************************************************************)
(* Verify: the cursor, the log and the accepted list.                      *)
(***************************************************************************)
\* the records at indices below n whose logged action is "added", in the
\* order of all_data
RECURSIVE AddedBelow(_)
AddedBelow(n) ==
    IF n = 0 THEN <<>>
    ELSE IF actions[n - 1] = "added"
           THEN Append(AddedBelow(n - 1), all_data[n])
           ELSE AddedBelow(n - 1)

\* C26: in every reachable state 0 <= i <= len(all_data), every index below
\* i has an entry in actions, and verified_data is the records at the
\* indices below i whose entry is "added", in ascending order of index.
C26_CursorLogAccepted ==
    /\ i \in 0..Len(all_data)
    /\ \A j \in 0..(i - 1) : j \in DOMAIN actions
    /\ (\A j \in 0..(i - 1) : j \in DOMAIN actions)
          => verified_data = AddedBelow(i)

\* two records were accepted, both were undone and the first was skipped:
\* the log still holds "added" for the second, at the cursor, and the
\* accepted list is empty
C26_Witness ==
    /\ keys = <<Accept, Accept, Undo, Undo, Skip>>
    /\ i = 1
    /\ actions[0] = "skipped"
    /\ actions[1] = "added"
    /\ verified_data = <<>>
    /\ vpc = "loop"

(***************************************************************************)
(* Verify: what is uploaded.                                               *)
(***************************************************************************)
\* C25: the folder of each split is uploaded with the annotations file of
\* this run in it: what upload_dataset found in the folder is the images
\* of the split and an annotations.json that holds data[data_type].
C25_AnnotationsUploaded ==
    \A data_type \in SetTypes :
        uploaded[data_type] # <<>> =>
            /\ uploaded[data_type][1].annotations = <<data[data_type]>>
            /\ uploaded[data_type][1].images = Range(data[data_type])

(***************************************************************************)
(* Player: what one keystroke does.                                        *)
(***************************************************************************)
\* C27: an export run starts only in a pass whose cv2.waitKey returned the
\* export key: after a run that was aborted, by a frame that could not be
\* read or otherwise, no run starts without a new export keystroke.
C27_OneRunPerExportKey ==
    [][(ppc = "wait" /\ ppc' = "export") => last_key' = KeyE]_vars

\* C28: a rectangle leaves the store only in a pass whose cv2.waitKey
\* returned the undo key, one rectangle at a time, and that pass ends with
\* the status "stay", also when the store was empty.
C28_OneRemovalPerUndoKey ==
    [][/\ Len(rectangles') < Len(rectangles) =>
             /\ last_key' = KeyZ
             /\ Len(rectangles') = Len(rectangles) - 1
       /\ (ppc = "wait" /\ last_key' = KeyZ) => status' = "stay"]_vars

\* C29: every change of the rectangle store sets rerender, and every pass
\* of start that reaches cv2.waitKey leaves on the screen exactly the
\* culled projections of the store at the current frame.
C29_RedrawAfterChange ==
    /\ [][rectangles' # rectangles => rerender']_vars
    /\ [][(ppc = "top" /\ ppc' = "wait") =>
            shown' = VisibleOf(rectangles', tracker_position', FrameDims)]_vars

(***************************************************************************)
(* Player.export: the boxes in the resolution of the video.                *)
(***************************************************************************)
\* the boxes of the records export has built
Bboxes ==
    UNION {{<<dataset_dicts[k], dataset_dicts[k].annotations[n].bbox>> :
               n \in 1..Len(dataset_dicts[k].annotations)} :
           k \in 1..Len(dataset_dicts)}

\* C30: every box of a record lies strictly inside the frame of
\* the record in pixels of the video, whatever the width of the window and
\* the resolution of the video.
C30_StrictlyInsideSource ==
    \A p \in (IF ppc \in {"export", "exited"} THEN Bboxes ELSE {}) :
        LET bbox == p[2]
        IN  /\ 0 < bbox[1] /\ bbox[1] <= bbox[3] /\ bbox[3] < p[1].width
            /\ 0 < bbox[2] /\ bbox[2] <= bbox[4] /\ bbox[4] < p[1].height

(***************************************************************************)
(* Main: the folder of the videos and the tasks that write into it.        *)
(***************************************************************************)
\* C31: while a task is inside download_file, which writes into the folder
\* of the videos, the folder exists.
C31_FolderBeforeDownload ==
    \A r \in Runs, o \in Objects : tpc[r][o] = "download" => videos_dir

=============================================================================
